---- MODULE Spec2Model ----
(***************************************************************************)
(* A model of news.py: the feed aggregation get_news (fetch, parse,        *)
(* filter, rank, truncate), the Spinner context manager with its thread,   *)
(* and main() under the KeyboardInterrupt handler of the entry point.      *)
(*                                                                         *)
(* A Python str is a sequence of one-character strings.  A pubDate in      *)
(* RFC 2822 form is one token (the whole date text), parsed by a table.    *)
(***************************************************************************)
EXTENDS Integers, Sequences, FiniteSets, TLC

VARIABLES
    feeds,            \* url -> what urlopen/read delivers for it
    order,            \* the order in which the loop visits RSS_FEEDS
    shuffle, limit,   \* the arguments of get_news
    gpc,              \* get_news: "loop", "ranked", "done", "raised", "aborted"
    u,                \* get_news: position of the for loop in order
    all_items,        \* get_news: the list all_items
    ret,              \* get_news: the returned list
    exc,              \* the exception in flight in the main thread
    isatty,           \* sys.stdout.isatty()
    mpc,              \* main thread: position in main() / Spinner.__enter__ / __exit__
    tpc,              \* spinner thread: position in Spinner.run
    busy,             \* Spinner.busy
    spinner_visible,  \* Spinner.spinner_visible
    lock,             \* Spinner._screen_lock: "free", "main" or "spinner"
    late,             \* history: write_next ran after busy was cleared
    exit_returned,    \* history: Spinner.__exit__ has returned
    interrupted,      \* a KeyboardInterrupt was delivered to the main thread
    status,           \* the exit status of the process, "running" until it exits
    run,              \* 1, or 2 in a second call of get_news on the same payloads
    first             \* what the first call returned, once a second one runs

vars == <<feeds, order, shuffle, limit, gpc, u, all_items, ret, exc, isatty, mpc,
          tpc, busy, spinner_visible, lock, late, exit_returned, interrupted, status,
          run, first>>

aggVars == <<gpc, u, all_items, ret, exc>>
inputVars == <<feeds, order, shuffle, limit, isatty, run, first>>
spinVars == <<tpc, busy, spinner_visible, lock, late>>
mainVars == <<mpc, exit_returned, interrupted, status>>

-----------------------------------------------------------------------------
(* Bound of the model: the items all sources deliver together *)

MaxItems == 3

(* Program constants *)

MAX_ITEMS == 4
DescBudget == 200
DatetimeMin == -1054527840

-----------------------------------------------------------------------------
(* Python values *)

None == <<"#None">>
Missing == <<"#Missing">>
EmptyStr == <<>>

Truthy(x) == x # None /\ x # EmptyStr

Rep(c, n) == [i \in 1..n |-> c]

Min(a, b) == IF a <= b THEN a ELSE b
Max(a, b) == IF a >= b THEN a ELSE b

Upper == <<"A","B","C","D","E","F","G","H","I","J","K","L","M","N","O","P","Q","R","S","T","U","V","W","X","Y","Z">>
Lower == <<"a","b","c","d","e","f","g","h","i","j","k","l","m","n","o","p","q","r","s","t","u","v","w","x","y","z">>
Digits == <<"0","1","2","3","4","5","6","7","8","9">>

Range(s) == {s[i] : i \in DOMAIN s}

\* \w of a str pattern, on the characters of the model
WordChars == Range(Upper) \cup Range(Lower) \cup Range(Digits) \cup {"_"}
Whitespace == {" ", "\t", "\n", "\r"}

LowerChar(c) ==
    IF c \in Range(Upper) THEN Lower[CHOOSE i \in DOMAIN Upper : Upper[i] = c] ELSE c

\* str.lower()
lower(s) == [i \in DOMAIN s |-> LowerChar(s[i])]

\* str.strip()
strip(s) ==
    LET keep == {i \in DOMAIN s : s[i] \notin Whitespace}
    IN  IF keep = {} THEN EmptyStr
        ELSE LET lo == CHOOSE i \in keep : \A j \in keep : i <= j
                 hi == CHOOSE i \in keep : \A j \in keep : i >= j
             IN  SubSeq(s, lo, hi)

\* s[:n] for n >= 0
Take(s, n) == SubSeq(s, 1, Min(n, Len(s)))

\* s[:n] for any integer n: a negative n counts from the end
Slice(s, n) == IF n >= 0 THEN Take(s, n) ELSE SubSeq(s, 1, Max(0, Len(s) + n))

StartsWith(s, i, p) ==
    /\ i + Len(p) - 1 <= Len(s)
    /\ \A j \in DOMAIN p : s[i + j - 1] = p[j]

-----------------------------------------------------------------------------
(* clean_html *)

\* re.sub('<.*?>', '', s): from each '<' the shortest run up to a '>' on the
\* same line is removed ('.' does not match a newline)
TagEnd(s, i) ==
    LET closes == {j \in (i+1)..Len(s) :
                     /\ s[j] = ">"
                     /\ \A m \in (i+1)..(j-1) : s[m] # "\n" /\ s[m] # ">"}
    IN  IF closes = {} THEN 0 ELSE CHOOSE j \in closes : TRUE

\* the characters of s at the positions in keep, in order
Select(s, keep) ==
    LET at == SelectSeq([i \in DOMAIN s |-> <<i, s[i]>>], LAMBDA x : x[1] \in keep)
    IN  [j \in DOMAIN at |-> at[j][2]]

\* matches do not nest: a '<' inside a match ends at the same '>'
StripTags(s) ==
    LET in_tag(i) == \E t \in 1..i : s[t] = "<" /\ TagEnd(s, t) >= i
    IN  Select(s, {i \in DOMAIN s : ~in_tag(i)})

\* the entities of html.unescape that the model's texts use, longest first
Entities == <<
    << <<"&","a","m","p",";">>, "&" >>,
    << <<"&","l","t",";">>, "<" >>,
    << <<"&","g","t",";">>, ">" >>,
    << <<"&","a","m","p">>, "&" >>,
    << <<"&","l","t">>, "<" >>,
    << <<"&","g","t">>, ">" >> >>

\* the entity that starts at s[i], 0 when none does
EntityAt(s, i) ==
    LET hits == {e \in DOMAIN Entities : StartsWith(s, i, Entities[e][1])}
    IN  IF hits = {} THEN 0 ELSE CHOOSE x \in hits : \A y \in hits : x <= y

\* html.unescape: an entity starts with '&' and holds no other, so matches
\* do not overlap
unescape(s) ==
    LET in_entity(i) ==
            \E t \in 1..(i - 1) :
                EntityAt(s, t) # 0 /\ t + Len(Entities[EntityAt(s, t)][1]) > i
        decoded == [i \in DOMAIN s |->
                       IF EntityAt(s, i) # 0 THEN Entities[EntityAt(s, i)][2] ELSE s[i]]
    IN  Select(decoded, {i \in DOMAIN s : ~in_entity(i)})

clean_html(raw_html) ==
    IF ~Truthy(raw_html) THEN EmptyStr
    ELSE strip(unescape(StripTags(raw_html)))

-----------------------------------------------------------------------------
(* parse_date *)

D1  == "Mon, 02 Jan 2006 15:04:00 +0000"
D1b == "Mon, 02 Jan 2006 15:04:00 +0500"
D2  == "Tue, 03 Jan 2006 09:00:00 GMT"

\* parsedate_to_datetime(...).replace(tzinfo=None) in minutes since 2006-01-01
\* 00:00: the offset is dropped, not applied
RFC2822 == (D1 :> 2344) @@ (D1b :> 2344) @@ (D2 :> 3420)

Parseable(date_str) == Len(date_str) = 1 /\ date_str[1] \in DOMAIN RFC2822

parse_date(date_str) ==
    IF ~Truthy(date_str) THEN DatetimeMin
    ELSE IF Parseable(date_str) THEN RFC2822[date_str[1]]
    ELSE DatetimeMin

-----------------------------------------------------------------------------
(* The keyword filter *)

KEYWORDS == <<
    <<"a","i">>,
    <<"a","r","t","i","f","i","c","i","a","l"," ","i","n","t","e","l","l","i","g","e","n","c","e">>,
    <<"m","a","c","h","i","n","e"," ","l","e","a","r","n","i","n","g">>,
    <<"d","e","e","p"," ","l","e","a","r","n","i","n","g">>,
    <<"n","e","u","r","a","l">>,
    <<"a","l","g","o","r","i","t","h","m">>,
    <<"c","o","m","p","u","t","e","r"," ","s","c","i","e","n","c","e">>,
    <<"p","r","o","g","r","a","m","m","i","n","g">>,
    <<"s","o","f","t","w","a","r","e">>,
    <<"d","e","v","e","l","o","p","e","r">>,
    <<"c","o","d","i","n","g">>,
    <<"p","y","t","h","o","n">>,
    <<"r","u","s","t">>,
    <<"g","o","l","a","n","g">>,
    <<"l","i","n","u","x">>,
    <<"k","e","r","n","e","l">>,
    <<"c","y","b","e","r","s","e","c","u","r","i","t","y">>,
    <<"h","a","c","k","e","r">>,
    <<"d","a","t","a"," ","s","c","i","e","n","c","e">>,
    <<"l","l","m">>,
    <<"g","p","t">>,
    <<"t","r","a","n","s","f","o","r","m","e","r">>,
    <<"c","o","m","p","i","l","e","r">>,
    <<"d","i","s","t","r","i","b","u","t","e","d"," ","s","y","s","t","e","m">>,
    <<"c","l","o","u","d"," ","c","o","m","p","u","t","i","n","g">>,
    <<"a","w","s">>,
    <<"a","z","u","r","e">>,
    <<"g","o","o","g","l","e"," ","c","l","o","u","d">> >>

\* \b at offset p of s: exactly one of s[p], s[p+1] is a word character
WordBoundary(s, p) ==
    (p >= 1 /\ s[p] \in WordChars) # (p < Len(s) /\ s[p + 1] \in WordChars)

\* re.search(r'\b' + re.escape(k) + r'\b', s)
re_search(k, s) ==
    \E p \in 0..(Len(s) - Len(k)) :
        /\ StartsWith(s, p + 1, k)
        /\ WordBoundary(s, p)
        /\ WordBoundary(s, p + Len(k))

combined_text(title, desc) ==
    lower(title) \o <<" ">> \o (IF Truthy(desc) THEN lower(desc) ELSE EmptyStr)

is_match(title, desc) ==
    \E n \in DOMAIN KEYWORDS : re_search(KEYWORDS[n], combined_text(title, desc))

-----------------------------------------------------------------------------
(* Feed payloads: what the model's sources can deliver *)

\* An item element of a channel.  Each field is Missing (no such child
\* element) or the child's .text: None for an empty element, else its text.
RawItem(t, l, d, p) == [title |-> t, link |-> l, description |-> d, pubDate |-> p]

LongDescription ==
    <<"<","p",">">> \o Rep("x", 198)
        \o <<" ","&","a","m","p",";"," ","A","I"," ","r","u","s","t","<","/","p",">">>

Catalog == <<
    \* "AI", no description element
    RawItem(<<"A","I">>, <<"u">>, Missing, <<D2>>),
    \* keyword only in a long description with markup and an entity
    RawItem(<<"s","a","i","d">>, <<" ","u"," ">>, LongDescription, <<D1>>),
    \* "machine and learning aim said": no keyword as a word or phrase
    RawItem(<<"m","a","c","h","i","n","e"," ","a","n","d">>, <<"u">>,
            <<"l","e","a","r","n","i","n","g"," ","a","i","m"," ","s","a","i","d">>, <<D2>>),
    \* "machine" + " " + "learning": the phrase spans title and description
    RawItem(<<"m","a","c","h","i","n","e">>, Missing, <<"L","e","a","r","n","i","n","g">>, <<D1b>>),
    \* no title element
    RawItem(Missing, <<"u">>, <<"a","i">>, <<D1>>),
    \* <title/>
    RawItem(None, <<"u">>, <<"a","i">>, <<D1>>),
    \* a title of blanks only, no pubDate element
    RawItem(<<" "," ">>, <<"u">>, <<"a","i">>, Missing),
    \* <link/>
    RawItem(<<"A","I">>, None, <<"a","i">>, <<D2>>),
    \* <description/>, a date that does not parse
    RawItem(<<" ","a","i"," ">>, <<"u">>, None, <<"y","e","s","t","e","r","d","a","y">>),
    \* a description of markup only, <pubDate/>
    RawItem(<<"a","i">>, <<"u">>, <<"<","b",">","<","/","b",">">>, None) >>

\* a channel holds items of the catalog, each named by its place in it
CatalogIds == DOMAIN Catalog

\* What one source delivers: fetch_feed returns None ("none") or the body;
\* the body is empty ("empty"), not well-formed ("notxml"), declares an
\* encoding expat does not know ("badenc"), has no channel child
\* ("nochannel"), or is an RSS channel with items ("rss").
FailKinds == {"none", "empty", "notxml", "badenc", "nochannel"}

Payload(k, its) == [kind |-> k, items |-> its]

SeqsUpTo(S, n) == UNION {[1..m -> S] : m \in 0..n}

\* the payloads of exactly m items of C: a source that fails delivers none
PayloadsOf(kinds, C, m) ==
    (IF m = 0 THEN {Payload(k, <<>>) : k \in kinds} ELSE {})
        \cup {Payload("rss", its) : its \in [1..m -> C]}

Payloads(kinds, C, b) == UNION {PayloadsOf(kinds, C, m) : m \in 0..b}

\* the first two of the seven sources
RSS_FEEDS == <<"https://news.ycombinator.com/rss",
               "https://feeds.arstechnica.com/arstechnica/index">>

\* feeds is an assignment of payloads to the two sources, of at most b items
\* in all
FeedsIn(kinds, C, b) ==
    \E m1 \in 0..b : \E m2 \in 0..(b - m1) :
        \E p1 \in PayloadsOf(kinds, C, m1) : \E p2 \in PayloadsOf(kinds, C, m2) :
            feeds = (RSS_FEEDS[1] :> p1) @@ (RSS_FEEDS[2] :> p2)

\* the orders in which the sources can be visited
Orders ==
    {[i \in DOMAIN RSS_FEEDS |-> RSS_FEEDS[p[i]]] : p \in Permutations(DOMAIN RSS_FEEDS)}

\* --limit takes any integer
Limits == {-1, 0, 2, MAX_ITEMS}

-----------------------------------------------------------------------------
(* get_news: the body of the item loop *)

\* item.find(tag).text if item.find(tag) is not None else ""
ElemText(e) == IF e = Missing THEN EmptyStr ELSE e

Placeholder == <<"N","o"," ","d","e","s","c","r","i","p","t","i","o","n",".">>
Ellipsis == <<".",".",".">>

\* the description with the cut to 200 characters left out
item_desc_uncut(desc) ==
    IF Truthy(desc) THEN clean_html(desc) \o Ellipsis ELSE Placeholder

\* clean_html(desc)[:200] + "..." if desc else "No description."
item_desc(desc) ==
    IF Truthy(desc) THEN Take(clean_html(desc), DescBudget) \o Ellipsis ELSE Placeholder

\* "continue" (no title), "drop" (no keyword), "AttributeError" (None.strip())
\* or "append"
item_outcome(item) ==
    LET title == ElemText(item.title)
        link  == ElemText(item.link)
        desc  == ElemText(item.description)
    IN  IF ~Truthy(title) THEN "continue"
        ELSE IF ~is_match(title, desc) THEN "drop"
        ELSE IF link = None THEN "AttributeError"
        ELSE "append"

\* the dict appended to all_items, without 'source'
item_dict(item) ==
    [title |-> strip(ElemText(item.title)),
     link  |-> strip(ElemText(item.link)),
     desc  |-> item_desc(ElemText(item.description)),
     date  |-> parse_date(ElemText(item.pubDate))]

\* the loop body on one item
process_item(item) ==
    LET o == item_outcome(item)
    IN  IF o = "append" THEN [outcome |-> o, dict |-> item_dict(item)]
        ELSE [outcome |-> o, dict |-> <<>>]

\* the loop body on every item of the catalog, tabulated once
RECURSIVE Tabulate(_)
Tabulate(n) ==
    IF n = 0 THEN <<>> ELSE Append(Tabulate(n - 1), process_item(Catalog[n]))

Processed == Tabulate(Len(Catalog))

\* an element of all_items; idx is the item's position in its channel
NewsItem(url, idx, id) ==
    LET d == Processed[id].dict
    IN  [title |-> d.title, link |-> d.link, desc |-> d.desc, date |-> d.date,
         source |-> url, idx |-> idx]

\* for item in channel.findall('item'): ... from item k on
RECURSIVE Collect(_, _, _, _)
Collect(url, items, k, acc) ==
    IF k > Len(items) THEN [items |-> acc, exc |-> "none"]
    ELSE LET o == Processed[items[k]].outcome
         IN  IF o = "AttributeError" THEN [items |-> acc, exc |-> o]
             ELSE IF o = "append"
                  THEN Collect(url, items, k + 1, Append(acc, NewsItem(url, k, items[k])))
             ELSE Collect(url, items, k + 1, acc)

\* a sort that puts x before the elements of its own date
InsertDesc_unstable(sorted, x) ==
    LET k == Cardinality({i \in DOMAIN sorted : sorted[i].date > x.date})
    IN  SubSeq(sorted, 1, k) \o <<x>> \o SubSeq(sorted, k + 1, Len(sorted))

\* list.sort(key=date, reverse=True) is stable: x goes after every element
\* whose date is not earlier
InsertDesc(sorted, x) ==
    LET k == Cardinality({i \in DOMAIN sorted : sorted[i].date >= x.date})
    IN  SubSeq(sorted, 1, k) \o <<x>> \o SubSeq(sorted, k + 1, Len(sorted))

RECURSIVE SortFrom(_, _, _)
SortFrom(s, i, acc) ==
    IF i > Len(s) THEN acc ELSE SortFrom(s, i + 1, InsertDesc(acc, s[i]))

SortByDateDesc(s) == SortFrom(s, 1, <<>>)

-----------------------------------------------------------------------------
(* get_news: the actions *)

InLoop == mpc = "body" /\ gpc = "loop" /\ u <= Len(order)
data == feeds[order[u]]

\* if not data: continue
SkipNoData ==
    /\ InLoop /\ data.kind \in {"none", "empty"}
    /\ u' = u + 1
    /\ UNCHANGED <<gpc, all_items, ret, exc, inputVars, spinVars, mainVars>>

\* except ET.ParseError: continue
SkipParseError ==
    /\ InLoop /\ data.kind = "notxml"
    /\ u' = u + 1
    /\ UNCHANGED <<gpc, all_items, ret, exc, inputVars, spinVars, mainVars>>

\* if channel is None: continue
SkipNoChannel ==
    /\ InLoop /\ data.kind = "nochannel"
    /\ u' = u + 1
    /\ UNCHANGED <<gpc, all_items, ret, exc, inputVars, spinVars, mainVars>>

\* ET.fromstring raises LookupError, which is no ET.ParseError
RaiseLookupError ==
    /\ InLoop /\ data.kind = "badenc"
    /\ gpc' = "raised" /\ exc' = "LookupError"
    /\ UNCHANGED <<u, all_items, ret, inputVars, spinVars, mainVars>>

\* for item in channel.findall('item'): ...
CollectChannel ==
    /\ InLoop /\ data.kind = "rss"
    /\ LET r == Collect(order[u], data.items, 1, all_items)
       IN  /\ all_items' = r.items
           /\ IF r.exc = "none"
              THEN u' = u + 1 /\ UNCHANGED <<gpc, exc>>
              ELSE gpc' = "raised" /\ exc' = r.exc /\ UNCHANGED u
    /\ UNCHANGED <<ret, inputVars, spinVars, mainVars>>

LoopDone == mpc = "body" /\ gpc = "loop" /\ u > Len(order)

\* random.shuffle(all_items)
RankShuffle ==
    /\ LoopDone /\ shuffle
    /\ \E p \in Permutations(DOMAIN all_items) :
          all_items' = [i \in DOMAIN all_items |-> all_items[p[i]]]
    /\ gpc' = "ranked"
    /\ UNCHANGED <<u, ret, exc, inputVars, spinVars, mainVars>>

\* the items are left in the order of arrival
RankSort_arrival ==
    /\ LoopDone /\ ~shuffle
    /\ gpc' = "ranked"
    /\ UNCHANGED <<u, all_items, ret, exc, inputVars, spinVars, mainVars>>

\* all_items.sort(key=lambda x: x['date'], reverse=True)
RankSort ==
    /\ LoopDone /\ ~shuffle
    /\ all_items' = SortByDateDesc(all_items)
    /\ gpc' = "ranked"
    /\ UNCHANGED <<u, ret, exc, inputVars, spinVars, mainVars>>

\* return all_items[:limit]
Return ==
    /\ mpc = "body" /\ gpc = "ranked"
    /\ ret' = Slice(all_items, limit)
    /\ gpc' = "done"
    /\ UNCHANGED <<u, all_items, exc, inputVars, spinVars, mainVars>>

get_news ==
    \/ SkipNoData
    \/ SkipParseError
    \/ SkipNoChannel
    \/ RaiseLookupError
    \/ CollectChannel
    \/ RankShuffle
    \/ RankSort
    \/ Return

-----------------------------------------------------------------------------
(* get_news called on its own, with every argument and payload of the model *)

InitCall(kinds, C, b, orders, shuffles, limits) ==
    /\ FeedsIn(kinds, C, b)
    /\ order \in orders
    /\ shuffle \in shuffles
    /\ limit \in limits
    /\ gpc = "loop" /\ u = 1 /\ all_items = <<>> /\ ret = <<>> /\ exc = "none"
    /\ isatty = FALSE /\ mpc = "body"
    /\ tpc = "none" /\ busy = FALSE /\ spinner_visible = FALSE /\ lock = "free"
    /\ late = FALSE /\ exit_returned = FALSE /\ interrupted = FALSE
    /\ status = "running"
    /\ run = 1 /\ first = <<>>

Init == InitCall(FailKinds, CatalogIds, MaxItems, {RSS_FEEDS}, BOOLEAN, Limits)

Next == get_news

Spec == Init /\ [][Next]_vars

\* date mode (shuffle false): get_news is called, and called again on the
\* same payloads with the sources visited in any order
InitDate == InitCall(FailKinds, CatalogIds, MaxItems, {RSS_FEEDS}, {FALSE}, {2, MAX_ITEMS})

Rerun ==
    /\ mpc = "body" /\ gpc = "done" /\ run = 1
    /\ run' = 2 /\ first' = ret
    /\ order' \in Orders
    /\ gpc' = "loop" /\ u' = 1 /\ all_items' = <<>> /\ ret' = <<>>
    /\ UNCHANGED <<exc, feeds, shuffle, limit, isatty, spinVars, mainVars>>

NextDate ==
    \/ SkipNoData
    \/ SkipParseError
    \/ SkipNoChannel
    \/ RaiseLookupError
    \/ CollectChannel
    \/ RankSort
    \/ Return
    \/ Rerun

SpecDate == InitDate /\ [][NextDate]_vars

-----------------------------------------------------------------------------
(* Spinner.run, the spinner thread *)

\* while self.busy:
SpinnerCheck ==
    /\ tpc = "check"
    /\ tpc' = IF busy THEN "write_acquire" ELSE "remove_acquire"
    /\ UNCHANGED <<busy, spinner_visible, lock, late, aggVars, inputVars, mainVars>>

\* write_next: with self._screen_lock
SpinnerWriteAcquire ==
    /\ tpc = "write_acquire" /\ lock = "free"
    /\ lock' = "spinner" /\ tpc' = "write"
    /\ late' = (late \/ ~busy)
    /\ UNCHANGED <<busy, spinner_visible, aggVars, inputVars, mainVars>>

\* write_next: the message and the next frame are written
SpinnerWrite ==
    /\ tpc = "write"
    /\ spinner_visible' = TRUE
    /\ lock' = "free" /\ tpc' = "sleep"
    /\ UNCHANGED <<busy, late, aggVars, inputVars, mainVars>>

\* time.sleep(self.delay)
SpinnerSleep ==
    /\ tpc = "sleep"
    /\ tpc' = "check"
    /\ UNCHANGED <<busy, spinner_visible, lock, late, aggVars, inputVars, mainVars>>

\* remove_spinner after the loop: with self._screen_lock
SpinnerRemoveAcquire ==
    /\ tpc = "remove_acquire" /\ lock = "free"
    /\ lock' = "spinner" /\ tpc' = "remove"
    /\ UNCHANGED <<busy, spinner_visible, late, aggVars, inputVars, mainVars>>

\* run returns without the remove_spinner after the loop
SpinnerRemove_skipped ==
    /\ tpc = "remove"
    /\ lock' = "free" /\ tpc' = "done"
    /\ UNCHANGED <<busy, spinner_visible, late, aggVars, inputVars, mainVars>>

\* remove_spinner after the loop: the text is erased, run returns
SpinnerRemove ==
    /\ tpc = "remove"
    /\ spinner_visible' = FALSE
    /\ lock' = "free" /\ tpc' = "done"
    /\ UNCHANGED <<busy, late, aggVars, inputVars, mainVars>>

SpinnerThread ==
    \/ SpinnerCheck
    \/ SpinnerWriteAcquire
    \/ SpinnerWrite
    \/ SpinnerSleep
    \/ SpinnerRemoveAcquire
    \/ SpinnerRemove

-----------------------------------------------------------------------------
(* main() and the with statement around get_news *)

\* parse_args, the header, Spinner(...)
MainStart ==
    /\ mpc = "start"
    /\ mpc' = "enter"
    /\ UNCHANGED <<exit_returned, interrupted, status, aggVars, inputVars, spinVars>>

\* __enter__ up to the hidden cursor
Enter ==
    /\ mpc = "enter"
    /\ IF isatty
       THEN busy' = TRUE /\ lock' = "free" /\ mpc' = "enter_start"
       ELSE mpc' = "body" /\ UNCHANGED <<busy, lock>>
    /\ UNCHANGED <<tpc, spinner_visible, late, exit_returned, interrupted, status,
                   aggVars, inputVars>>

\* self.thread = threading.Thread(target=self.run); self.thread.start()
EnterStart ==
    /\ mpc = "enter_start"
    /\ tpc' = "check" /\ mpc' = "enter_return"
    /\ UNCHANGED <<busy, spinner_visible, lock, late, exit_returned, interrupted, status,
                   aggVars, inputVars>>

\* return self
EnterReturn ==
    /\ mpc = "enter_return"
    /\ mpc' = "body"
    /\ UNCHANGED <<exit_returned, interrupted, status, aggVars, inputVars, spinVars>>

\* where the main thread goes once __exit__ has returned
AfterWith(e) ==
    IF e = "none" THEN "render" ELSE IF e = "KeyboardInterrupt" THEN "handler" ELSE "crash"

\* the with body is left, by return or by an exception: __exit__ is called
WithExit ==
    /\ mpc = "body" /\ gpc \in {"done", "raised", "aborted"}
    /\ mpc' = "exit"
    /\ UNCHANGED <<exit_returned, interrupted, status, aggVars, inputVars, spinVars>>

\* __exit__: if sys.stdout.isatty(): self.busy = False
Exit ==
    /\ mpc = "exit"
    /\ IF isatty
       THEN busy' = FALSE /\ mpc' = "exit_acquire" /\ UNCHANGED exit_returned
       ELSE exit_returned' = TRUE /\ mpc' = AfterWith(exc) /\ UNCHANGED busy
    /\ UNCHANGED <<tpc, spinner_visible, lock, late, interrupted, status, aggVars, inputVars>>

\* __exit__: remove_spinner: with self._screen_lock
ExitAcquire ==
    /\ mpc = "exit_acquire" /\ lock = "free"
    /\ lock' = "main" /\ mpc' = "exit_remove"
    /\ UNCHANGED <<tpc, busy, spinner_visible, late, exit_returned, interrupted, status,
                   aggVars, inputVars>>

\* __exit__: remove_spinner erases the text; the cursor is shown again
ExitRemove ==
    /\ mpc = "exit_remove"
    /\ spinner_visible' = FALSE
    /\ lock' = "free" /\ mpc' = "exit_join"
    /\ UNCHANGED <<tpc, busy, late, exit_returned, interrupted, status, aggVars, inputVars>>

\* __exit__: self.thread.join() returns once run has returned
ExitJoin ==
    /\ mpc = "exit_join" /\ tpc = "done"
    /\ exit_returned' = TRUE
    /\ mpc' = AfterWith(exc)
    /\ UNCHANGED <<interrupted, status, aggVars, inputVars, spinVars>>

\* the items are printed and main returns
Render ==
    /\ mpc = "render"
    /\ mpc' = "shutdown"
    /\ UNCHANGED <<exit_returned, interrupted, status, aggVars, inputVars, spinVars>>

\* except KeyboardInterrupt: sys.exit(0)
Handler ==
    /\ mpc = "handler"
    /\ exc' = "SystemExit" /\ mpc' = "shutdown"
    /\ UNCHANGED <<gpc, u, all_items, ret, exit_returned, interrupted, status,
                   inputVars, spinVars>>

\* an exception that is no KeyboardInterrupt leaves main: the traceback
Crash ==
    /\ mpc = "crash"
    /\ mpc' = "shutdown"
    /\ UNCHANGED <<exit_returned, interrupted, status, aggVars, inputVars, spinVars>>

\* the interpreter joins the spinner thread, which is no daemon, and exits
Shutdown ==
    /\ mpc = "shutdown" /\ tpc \in {"none", "done"}
    /\ mpc' = "exited"
    /\ status' = IF exc \in {"none", "SystemExit"} THEN "0" ELSE "1"
    /\ UNCHANGED <<exit_returned, interrupted, aggVars, inputVars, spinVars>>

InEnter == mpc \in {"enter", "enter_start", "enter_return"}
InExit == mpc \in {"exit", "exit_acquire", "exit_remove", "exit_join"}

\* SIGINT: KeyboardInterrupt is raised in the main thread where it stands.
\* In the with body __exit__ is called with it; in __enter__ and in __exit__
\* it leaves the method at once (a held lock is released by its with).
KeyboardInterrupt ==
    /\ ~interrupted
    /\ mpc \in {"start", "body", "render"} \/ InEnter \/ InExit
    /\ interrupted' = TRUE
    /\ exc' = "KeyboardInterrupt"
    /\ mpc' = IF mpc = "body" THEN "exit" ELSE "handler"
    /\ gpc' = IF mpc = "body" /\ gpc \in {"loop", "ranked"} THEN "aborted" ELSE gpc
    /\ lock' = IF lock = "main" THEN "free" ELSE lock
    /\ UNCHANGED <<u, all_items, ret, tpc, busy, spinner_visible, late, exit_returned,
                   status, inputVars>>

MainThread ==
    \/ MainStart
    \/ Enter
    \/ EnterStart
    \/ EnterReturn
    \/ get_news
    \/ WithExit
    \/ Exit
    \/ ExitAcquire
    \/ ExitRemove
    \/ ExitJoin
    \/ Render
    \/ Handler
    \/ Crash
    \/ Shutdown

\* every source delivers the same payload, of at most one item
MainFeeds ==
    {[url \in Range(RSS_FEEDS) |-> p] : p \in Payloads(FailKinds, {1, 8}, 1)}

InitMain ==
    /\ feeds \in MainFeeds
    /\ order = RSS_FEEDS
    /\ shuffle \in BOOLEAN
    /\ limit = MAX_ITEMS
    /\ gpc = "loop" /\ u = 1 /\ all_items = <<>> /\ ret = <<>> /\ exc = "none"
    /\ isatty \in BOOLEAN /\ mpc = "start"
    /\ tpc = "none" /\ busy = FALSE /\ spinner_visible = FALSE /\ lock = "free"
    /\ late = FALSE /\ exit_returned = FALSE /\ interrupted = FALSE
    /\ status = "running"
    /\ run = 1 /\ first = <<>>

NextMain == MainThread \/ SpinnerThread \/ KeyboardInterrupt

\* both threads are scheduled; a signal need not come
SpecMain ==
    InitMain /\ [][NextMain]_vars /\ WF_vars(MainThread) /\ WF_vars(SpinnerThread)

-----------------------------------------------------------------------------
(* What the claims speak of *)

\* the item element a NewsItem was built from
Raw(x) == Catalog[feeds[x.source].items[x.idx]]
Pos(x) == <<x.source, x.idx>>

\* an item with a title in whose lowercased title and description, joined by
\* one space, a keyword occurs between word boundaries; per catalog item
RECURSIVE TabulateMatching(_)
TabulateMatching(n) ==
    IF n = 0 THEN <<>>
    ELSE Append(TabulateMatching(n - 1),
                /\ Truthy(ElemText(Catalog[n].title))
                /\ is_match(ElemText(Catalog[n].title), ElemText(Catalog[n].description)))

TitledMatching == TabulateMatching(Len(Catalog))

\* the sanitized description of each catalog item
RECURSIVE TabulateSanitized(_)
TabulateSanitized(n) ==
    IF n = 0 THEN <<>>
    ELSE Append(TabulateSanitized(n - 1), clean_html(ElemText(Catalog[n].description)))

Sanitized == TabulateSanitized(Len(Catalog))

Failed(url) == feeds[url].kind \in FailKinds

\* the places of the titled matching items of the sources that delivered a channel
ExpectedPos ==
    {pos \in (DOMAIN feeds) \X (1..MaxItems) :
        /\ ~Failed(pos[1])
        /\ pos[2] <= Len(feeds[pos[1]].items)
        /\ TitledMatching[feeds[pos[1]].items[pos[2]]]}

PosInOrder(url) == CHOOSE i \in DOMAIN order : order[i] = url

\* x was appended to all_items before y
CollectedBefore(x, y) ==
    \/ PosInOrder(x.source) < PosInOrder(y.source)
    \/ x.source = y.source /\ x.idx < y.idx

HasDate(x) == Parseable(ElemText(Raw(x).pubDate))

Dates(s) == [i \in DOMAIN s |-> s[i].date]

Terminated == gpc \in {"done", "raised"}

-----------------------------------------------------------------------------
(* C1 *)

\* C1: get_news never lets an exception escape: whatever the sources deliver,
\* the call does not end in a raised exception.
C1_NoExceptionEscapes == gpc # "raised"

(* C2 *)

\* C2: when some source fails (no body, empty body, not parseable, no channel)
\* every other source is still processed: the call returns, and with a limit
\* of at least the number of collected items the result holds exactly the
\* titled matching items of the sources that delivered a channel.
C2_FailOpen ==
    (Terminated /\ \E url \in DOMAIN feeds : Failed(url)) =>
        /\ gpc = "done"
        /\ limit >= Len(all_items) =>
              /\ {Pos(ret[i]) : i \in DOMAIN ret} = ExpectedPos
              /\ Len(ret) = Cardinality(ExpectedPos)

(* C3 *)

\* C3: in date mode the returned sequence is a prefix of the ranked list, which
\* is ordered by date descending, keeps the collection order among equal
\* dates, holds every titled matching item whose pubDate is empty or does
\* not parse with the sentinel date, and has these after every item with a
\* date that parses.
C3_DateOrder ==
    gpc = "done" =>
        /\ ret = SubSeq(all_items, 1, Len(ret))
        /\ \A i, j \in DOMAIN all_items :
              i < j =>
                 /\ all_items[i].date >= all_items[j].date
                 /\ all_items[i].date = all_items[j].date =>
                       CollectedBefore(all_items[i], all_items[j])
                 /\ ~(HasDate(all_items[j]) /\ ~HasDate(all_items[i]))
        /\ \A pos \in ExpectedPos :
              ~Parseable(ElemText(Catalog[feeds[pos[1]].items[pos[2]]].pubDate)) =>
                 \E i \in DOMAIN all_items :
                    Pos(all_items[i]) = pos /\ all_items[i].date = DatetimeMin

C3_Witness ==
    /\ gpc = "done" /\ Len(ret) >= 3
    /\ \E i, j, k \in DOMAIN ret :
          /\ i < j /\ j < k
          /\ ret[i].date = ret[j].date /\ HasDate(ret[i]) /\ HasDate(ret[j])
          /\ ret[i].source # ret[j].source
          /\ ~HasDate(ret[k])

(* C4 *)

\* C4: for every integer limit, get_news returns a prefix of the ranked list
\* of n items that holds no more than limit items (none for a limit below 0):
\* min(limit, n) items when limit >= 0, all n when limit >= n.
C4_LimitRespected ==
    gpc = "done" =>
        /\ ret = SubSeq(all_items, 1, Len(ret))
        /\ Len(ret) <= Max(limit, 0)
        /\ limit >= 0 => Len(ret) = Min(limit, Len(all_items))
        /\ limit >= Len(all_items) => ret = all_items

(* C5 *)

\* C5: every returned NewsItem has a title that is not empty after trimming.
C5_TitleNonEmpty == \A i \in DOMAIN ret : ret[i].title # EmptyStr

(* C6 *)

\* the loop body has run on item k of url
Reached(url, k) ==
    \/ PosInOrder(url) < u
    \/ /\ PosInOrder(url) = u /\ gpc = "raised" /\ exc = "AttributeError"
       /\ \A m \in 1..(k - 1) : Processed[feeds[url].items[m]].outcome # "AttributeError"

\* C6: an item the loop body has run on is in all_items if and only if it has
\* a title and a keyword occurs, between word boundaries, in its lowercased
\* title and description joined by one space.
C6_CollectedIff ==
    gpc \in {"loop", "raised"} =>
        \A url \in {x \in DOMAIN feeds : ~Failed(x)} :
            \A k \in DOMAIN feeds[url].items :
                Reached(url, k) =>
                    ((\E i \in DOMAIN all_items : Pos(all_items[i]) = <<url, k>>)
                        <=> TitledMatching[feeds[url].items[k]])

(* C7 *)

\* C7: the description of every collected (hence every returned) NewsItem is
\* the placeholder when the item had no or an empty description, and else the
\* first 200 characters of the sanitized description followed by "...": at
\* most 203 characters.
DescriptionOk(x) ==
    LET id == feeds[x.source].items[x.idx]
        clean == Sanitized[id]
    IN  IF Truthy(ElemText(Catalog[id].description))
        THEN /\ x.desc = SubSeq(clean, 1, Min(DescBudget, Len(clean))) \o Ellipsis
             /\ Len(x.desc) <= DescBudget + Len(Ellipsis)
        ELSE x.desc = Placeholder

C7_Description ==
    /\ \A i \in DOMAIN all_items : DescriptionOk(all_items[i])
    /\ \A i \in DOMAIN ret : DescriptionOk(ret[i])

C7_Witness ==
    /\ gpc = "done"
    /\ \E i, j, k \in DOMAIN ret :
          /\ ret[i].desc = Placeholder
          /\ Len(Sanitized[feeds[ret[j].source].items[ret[j].idx]]) > DescBudget
          /\ Len(ret[j].desc) = DescBudget + Len(Ellipsis)
          /\ Len(ret[k].desc) < DescBudget /\ ret[k].desc # Placeholder

(* C8 *)

\* C8: once a KeyboardInterrupt was delivered, the process ends with exit
\* status 0.
C8_InterruptExitsZero == interrupted ~> (status = "0")

(* C9 *)

NoTies(s) == \A i, j \in DOMAIN s : i # j => s[i].date # s[j].date

C10_SpinnerGone ==
    /\ []((isatty /\ exit_returned) => (tpc = "done" /\ ~spinner_visible))
    /\ (mpc = "exit_join") ~> (tpc = "done")

\* __exit__ has returned although write_next ran after busy was cleared
C10_Witness == isatty /\ exit_returned /\ late

====
